---- MODULE Spec2Model ----
(***************************************************************************)
(* Model of mvpa/misc/attributes.py: CollectableAttribute and its          *)
(* specialization StateVariable.  A client holds attributes in a few       *)
(* reference variables (Slots) and calls the public operations on them in  *)
(* any order.  Every call leaves its outcome (exception raised, value      *)
(* returned, arguments) in `ret`.                                          *)
(*                                                                         *)
(*   Spec         one reference, every operation, the full input domains   *)
(*   SpecCopy     an attribute and its copy, with a mutable list as value  *)
(*   SpecThreads  two threads constructing attributes concurrently         *)
(***************************************************************************)
EXTENDS Integers, Sequences, FiniteSets, TLC

VARIABLES objs, counter, enforce, ret, autoHist, win, eff, thr

vars == <<objs, counter, enforce, ret, autoHist, win, eff, thr>>

----------------------------------------------------------------------------
(* Bounds and input domains *)

\* auto-assigned indexes stop being handed out at this counter value
MaxCounter == 3

\* the client's reference variable holding the attribute under test
Slots == {"a"}

\* Python objects held in the value slot: id is the identity of a mutable
\* object (0 for None and for immutable atoms, which have no identity that
\* matters), data is its current content
None == [id |-> 0, data |-> "None"]
Atom(x) == [id |-> 0, data |-> x]
Values == {Atom("x"), Atom("y")}
PyValues == Values \cup {None}
\* value arguments of the constructor (None is an omitted value)
CtorValues == {None, Atom("x")}

\* a list owned by the client, before and after an in-place append
ClientList == [id |-> 1, data |-> "l0"]
Appended(val) == [val EXCEPT !.data = "l1"]

\* doc strings; NoDoc is doc=None, the default of the base class
NoDoc == "None"
DefaultStateDoc == "State variable"
Docs == {NoDoc, DefaultStateDoc}

\* names: None, a non-string (an int), or a string given as its characters
NameNone == [type |-> "NoneType", chars |-> <<>>]
NameInt == [type |-> "int", chars |-> <<>>]
Str(s) == [type |-> "str", chars |-> s]
NameInputs == {NameNone, NameInt, Str(<<>>), Str(<<"_", "a">>), Str(<<"a">>)}

\* explicit index arguments (0 is below, 2 inside the automatic range)
IndexInputs == {0, 2}

----------------------------------------------------------------------------
(* Objects *)

\* a reference variable that was never bound
Unbound == [kind |-> "unbound", index |-> 0, doc |-> NoDoc, name |-> NameNone,
            value |-> None, isset |-> FALSE,
            isenabled |-> FALSE, defaultenabled |-> FALSE]

\* outcome of the last call: the exception raised ("none" if it returned),
\* the value read or written, the flag passed to enable or to the
\* constructor, and the index argument of the constructor (auto: omitted)
NoRet == [op |-> "none", self |-> "a", exc |-> "none", val |-> None,
          flag |-> FALSE, auto |-> FALSE, idx |-> 0]

\* threads that construct attributes concurrently; each is at a position
\* inside __init__, with the counter value it loaded and the index it read
Threads == {"t1", "t2"}
IdleThread == [pc |-> "idle", tmp |-> 0, idx |-> 0]

NoWin == [st |-> "idle", self |-> "a", isset |-> FALSE, exc |-> "none",
          val |-> None, wrote |-> FALSE]

----------------------------------------------------------------------------
(* Read-only properties *)

isSet(o) == o.isset

isEnabled(o) == o.isenabled

_getName(o) == o.name

----------------------------------------------------------------------------
(* CollectableAttribute *)

CA_get(o) == [exc |-> "none", val |-> o.value]

\* variant: the value is stored but the flag is not raised
CA_set_noflag(o, val) == [o EXCEPT !.value = val]

CA_set(o, val) == [o EXCEPT !.value = val, !.isset = TRUE]

\* variant: the base reset also drops the value
CA_reset_null(o) == [o EXCEPT !.isset = FALSE, !.value = None]

CA_reset(o) == [o EXCEPT !.isset = FALSE]

\* name[0] of the empty string is an IndexError; a failed call returns
\* before the assignment to __name
_setName(o, name) ==
    IF name.type # "NoneType"
    THEN IF name.type = "str"
         THEN IF Len(name.chars) = 0
              THEN [exc |-> "IndexError", obj |-> o]
              ELSE IF name.chars[1] = "_"
                   THEN [exc |-> "ValueError", obj |-> o]
                   ELSE [exc |-> "none", obj |-> [o EXCEPT !.name = name]]
         ELSE [exc |-> "ValueError", obj |-> o]
    ELSE [exc |-> "none", obj |-> [o EXCEPT !.name = name]]

----------------------------------------------------------------------------
(* StateVariable *)

\* variant: the strict read is not enforced
SV_get_noraise(o) == [exc |-> "none", val |-> o.value]

SV_get(o) ==
    IF ~isSet(o)
    THEN [exc |-> "UnknownStateError", val |-> None]
    ELSE CA_get(o)

\* variant: the gate is ignored
SV_set_ungated(o, val) == [o EXCEPT !.value = val, !.isset = TRUE]

\* variant: a disabled write still lands in the value slot
SV_set_leak(o, val) ==
    IF isEnabled(o)
    THEN [o EXCEPT !.value = val, !.isset = TRUE]
    ELSE [o EXCEPT !.value = val]

\* variant: like the constructor, the set skips a None value
SV_set_nonnone(o, val) ==
    IF isEnabled(o) /\ val # None
    THEN [o EXCEPT !.value = val, !.isset = TRUE]
    ELSE o

SV_set(o, val) == IF isEnabled(o) THEN CA_set(o, val) ELSE o

\* variant: only the flag is cleared
SV_reset_keep(o) == [o EXCEPT !.isset = FALSE]

\* variant: reset also puts the gate back to its default
SV_reset_regate(o) ==
    [o EXCEPT !.isset = FALSE, !.value = None, !.isenabled = o.defaultenabled]

SV_reset(o) == [CA_reset(o) EXCEPT !.value = None]

\* variant: flipping the gate also clears the attribute
enable_clears(o, value) ==
    IF o.isenabled = value
    THEN o
    ELSE [o EXCEPT !.isenabled = value, !.isset = FALSE, !.value = None]

\* variant: the new gate is also recorded as the default
enable_default(o, value) ==
    IF o.isenabled = value
    THEN o
    ELSE [o EXCEPT !.isenabled = value, !.defaultenabled = value]

enable(o, value) ==
    IF o.isenabled = value THEN o ELSE [o EXCEPT !.isenabled = value]

----------------------------------------------------------------------------
(* Virtual dispatch on the concrete class *)

_get(o) == IF o.kind = "StateVariable" THEN SV_get(o) ELSE CA_get(o)

_set(o, val) == IF o.kind = "StateVariable" THEN SV_set(o, val) ELSE CA_set(o, val)

reset(o) == IF o.kind = "StateVariable" THEN SV_reset(o) ELSE CA_reset(o)

\* the `value` property: reads and writes go through the hooks
_getVirtual(o) == _get(o)

_setVirtual(o, val) == _set(o, val)

----------------------------------------------------------------------------
(* Constructors.  Each returns the new object and the new class counter. *)

\* auto stands for index=None; value = None stands for an omitted value
\* variant: the index is taken from the counter but the counter is not stored
CA_init_nocount(kind, cnt, name, doc, auto, index, value) ==
    LET idx == IF auto THEN cnt + 1 ELSE index
        o0  == [kind |-> kind, index |-> idx, doc |-> doc, name |-> name,
                value |-> None, isset |-> FALSE,
                isenabled |-> FALSE, defaultenabled |-> FALSE]
        o1  == IF value # None THEN [o0 EXCEPT !.value = value, !.isset = TRUE] ELSE o0
    IN  [obj |-> o1, counter |-> cnt]

\* variant: the flag starts raised and the constructor does not reset
CA_init_noreset(kind, cnt, name, doc, auto, index, value) ==
    LET cnt1 == IF auto THEN cnt + 1 ELSE cnt
        o0   == [kind |-> kind, index |-> IF auto THEN cnt1 ELSE index,
                 doc |-> doc, name |-> name, value |-> None, isset |-> TRUE,
                 isenabled |-> FALSE, defaultenabled |-> FALSE]
        o2   == IF value # None THEN [o0 EXCEPT !.value = value] ELSE o0
    IN  [obj |-> o2, counter |-> cnt1]

\* variant: the constructor resets after the initializing set
CA_init_resetlast(kind, cnt, name, doc, auto, index, value) ==
    LET cnt1 == IF auto THEN cnt + 1 ELSE cnt
        o0   == [kind |-> kind, index |-> IF auto THEN cnt1 ELSE index,
                 doc |-> doc, name |-> name, value |-> None, isset |-> FALSE,
                 isenabled |-> FALSE, defaultenabled |-> FALSE]
        o1   == IF value # None THEN [o0 EXCEPT !.value = value, !.isset = TRUE] ELSE o0
    IN  [obj |-> [o1 EXCEPT !.isset = FALSE], counter |-> cnt1]

CA_init(kind, cnt, name, doc, auto, index, value) ==
    LET cnt1 == IF auto THEN cnt + 1 ELSE cnt
        idx  == IF auto THEN cnt1 ELSE index
        o0   == [kind |-> kind, index |-> idx, doc |-> doc, name |-> name,
                 value |-> None, isset |-> FALSE,
                 isenabled |-> FALSE, defaultenabled |-> FALSE]
        o1   == reset(o0)
        o2   == IF value # None THEN _set(o1, value) ELSE o1
    IN  [obj |-> o2, counter |-> cnt1]

\* variant: the test-mode override is not applied
SV_init_noenforce(cnt, enf, name, enabled, doc) ==
    LET o0 == [kind |-> "StateVariable", index |-> cnt + 1, doc |-> doc,
               name |-> name, value |-> None, isset |-> FALSE,
               isenabled |-> enabled, defaultenabled |-> enabled]
    IN  [obj |-> o0, counter |-> cnt + 1]

SV_init(cnt, enf, name, enabled, doc) ==
    LET en == IF enf THEN TRUE ELSE enabled
        r  == CA_init("StateVariable", cnt, name, doc, TRUE, 0, None)
    IN  [obj |-> [r.obj EXCEPT !.isenabled = en, !.defaultenabled = en],
         counter |-> r.counter]

\* the identity given to the next object allocated by a copy: one that no
\* live value has (1 is the client's list)
FreshId ==
    LET used == {objs[s].value.id : s \in DOMAIN objs}
    IN  CHOOSE n \in 2..(Cardinality(DOMAIN objs) + 2) :
           /\ n \notin used
           /\ \A m \in 2..(n - 1) : m \in used

\* copy.copy(val) of the support module: an independent duplicate with the
\* same content; None and immutable atoms are returned as they are
copy(val) == IF val.id = 0 THEN val ELSE [val EXCEPT !.id = FreshId]

\* variant: the copy inherits the flag of the original instead of being set
__copy__keepflag(o, cnt, enf) ==
    LET c == IF o.kind = "StateVariable"
             THEN SV_init(cnt, enf, _getName(o), TRUE, o.doc)
             ELSE CA_init(o.kind, cnt, _getName(o), o.doc, TRUE, 0, None)
    IN  [exc |-> "none", counter |-> c.counter, index |-> c.obj.index,
         obj |-> [c.obj EXCEPT !.value = copy(o.value), !.isset = o.isset]]

\* self.__class__(name=self.name, doc=self.__doc__), then
\* copied.value = copy.copy(self.value)
__copy__(o, cnt, enf) ==
    LET c == IF o.kind = "StateVariable"
             THEN SV_init(cnt, enf, _getName(o), TRUE, o.doc)
             ELSE CA_init(o.kind, cnt, _getName(o), o.doc, TRUE, 0, None)
        r == _getVirtual(o)
    IN  [exc |-> r.exc, counter |-> c.counter, index |-> c.obj.index,
         obj |-> IF r.exc = "none" THEN _setVirtual(c.obj, copy(r.val)) ELSE c.obj]

----------------------------------------------------------------------------
(* History of one disable ... enable episode on one attribute: opened by  *)
(* enable(False), kept open by sets on the same attribute, closed by its   *)
(* enable(True); any other call on that attribute abandons it.             *)

WinNext(op, s, flag) ==
    IF op = "enable" /\ ~flag
    THEN [st |-> "open", self |-> s, isset |-> isSet(objs[s]),
          exc |-> _getVirtual(objs[s]).exc, val |-> _getVirtual(objs[s]).val,
          wrote |-> FALSE]
    ELSE IF win.st = "open" /\ win.self = s
         THEN IF op = "set" THEN [win EXCEPT !.wrote = TRUE]
              ELSE IF op = "enable" THEN [win EXCEPT !.st = "closed"]
              ELSE NoWin
         ELSE IF win.st = "closed" THEN NoWin ELSE win

----------------------------------------------------------------------------
(* State machine.  eff is the history of writes that took effect: for each *)
(* reference, whether its attribute received one since it was constructed  *)
(* or last reset (a set on a base attribute, a non-None constructor value, *)
(* or a set on a StateVariable whose gate was enabled).                    *)

Init ==
    /\ objs = [s \in Slots |-> Unbound]
    /\ counter = 0
    /\ enforce \in BOOLEAN
    /\ ret = NoRet
    /\ autoHist = <<>>
    /\ win = NoWin
    /\ eff = [s \in Slots |-> FALSE]
    /\ thr = [t \in Threads |-> IdleThread]

Bound(s) == objs[s].kind # "unbound"

IsState(s) == objs[s].kind = "StateVariable"

IsBase(s) == objs[s].kind = "CollectableAttribute"

\* s = CollectableAttribute(name, doc, index, value)
Construct(s, name, doc, auto, index, value) ==
    /\ auto => counter < MaxCounter
    /\ LET r == CA_init("CollectableAttribute", counter, name, doc, auto, index, value)
       IN  /\ objs' = [objs EXCEPT ![s] = r.obj]
           /\ counter' = r.counter
           /\ autoHist' = IF auto THEN Append(autoHist, r.obj.index) ELSE autoHist
    /\ ret' = [NoRet EXCEPT !.op = "init", !.self = s, !.val = value,
                            !.auto = auto, !.idx = IF auto THEN 0 ELSE index]
    /\ win' = WinNext("init", s, FALSE)
    /\ eff' = [eff EXCEPT ![s] = (value # None)]
    /\ UNCHANGED <<enforce, thr>>

\* s = StateVariable(name, enabled, doc)
ConstructState(s, name, enabled, doc) ==
    /\ counter < MaxCounter
    /\ LET r == SV_init(counter, enforce, name, enabled, doc)
       IN  /\ objs' = [objs EXCEPT ![s] = r.obj]
           /\ counter' = r.counter
           /\ autoHist' = Append(autoHist, r.obj.index)
    /\ ret' = [NoRet EXCEPT !.op = "init", !.self = s, !.flag = enabled,
                            !.auto = TRUE]
    /\ win' = WinNext("init", s, TRUE)
    /\ eff' = [eff EXCEPT ![s] = FALSE]
    /\ UNCHANGED <<enforce, thr>>

\* d = copy(s): the new instance is built first, then the value is read
\* (which may raise) and written through the accessor of the copy
Copy(s, d) ==
    /\ Bound(s)
    /\ counter < MaxCounter
    /\ LET r == __copy__(objs[s], counter, enforce)
       IN  /\ objs' = IF r.exc = "none" THEN [objs EXCEPT ![d] = r.obj] ELSE objs
           /\ counter' = r.counter
           /\ autoHist' = Append(autoHist, r.index)
           /\ ret' = [NoRet EXCEPT !.op = "copy", !.self = d, !.exc = r.exc]
           /\ eff' = IF r.exc = "none" THEN [eff EXCEPT ![d] = TRUE] ELSE eff
    /\ win' = WinNext("copy", d, FALSE)
    /\ UNCHANGED <<enforce, thr>>

\* s.value
Get(s) ==
    /\ Bound(s)
    /\ LET r == _getVirtual(objs[s])
       IN  ret' = [NoRet EXCEPT !.op = "get", !.self = s, !.exc = r.exc, !.val = r.val]
    /\ win' = WinNext("get", s, FALSE)
    /\ UNCHANGED <<objs, counter, enforce, autoHist, eff, thr>>

\* s.value = val
Set(s, val) ==
    /\ Bound(s)
    /\ objs' = [objs EXCEPT ![s] = _setVirtual(objs[s], val)]
    /\ ret' = [NoRet EXCEPT !.op = "set", !.self = s, !.val = val]
    /\ win' = WinNext("set", s, FALSE)
    /\ eff' = [eff EXCEPT ![s] = @ \/ IsBase(s) \/ isEnabled(objs[s])]
    /\ UNCHANGED <<counter, enforce, autoHist, thr>>

\* s.reset()
Reset(s) ==
    /\ Bound(s)
    /\ objs' = [objs EXCEPT ![s] = reset(objs[s])]
    /\ ret' = [NoRet EXCEPT !.op = "reset", !.self = s]
    /\ win' = WinNext("reset", s, FALSE)
    /\ eff' = [eff EXCEPT ![s] = FALSE]
    /\ UNCHANGED <<counter, enforce, autoHist, thr>>

\* s.enable(flag)
Enable(s, flag) ==
    /\ objs[s].kind = "StateVariable"
    /\ objs' = [objs EXCEPT ![s] = enable(objs[s], flag)]
    /\ ret' = [NoRet EXCEPT !.op = "enable", !.self = s, !.flag = flag]
    /\ win' = WinNext("enable", s, flag)
    /\ UNCHANGED <<counter, enforce, autoHist, eff, thr>>

\* s._setName(name)
SetName(s, name) ==
    /\ Bound(s)
    /\ LET r == _setName(objs[s], name)
       IN  /\ objs' = [objs EXCEPT ![s] = r.obj]
           /\ ret' = [NoRet EXCEPT !.op = "setName", !.self = s, !.exc = r.exc]
    /\ win' = WinNext("setName", s, FALSE)
    /\ UNCHANGED <<counter, enforce, autoHist, eff, thr>>

Next ==
    \/ \E s \in Slots, name \in NameInputs, doc \in Docs, auto \in BOOLEAN,
          value \in CtorValues :
          \E index \in (IF auto THEN {0} ELSE IndexInputs) :
             Construct(s, name, doc, auto, index, value)
    \/ \E s \in Slots, name \in NameInputs, enabled \in BOOLEAN, doc \in Docs :
          ConstructState(s, name, enabled, doc)
    \/ \E s \in Slots, d \in Slots : Copy(s, d)
    \/ \E s \in Slots : Get(s)
    \/ \E s \in Slots, val \in PyValues : Set(s, val)
    \/ \E s \in Slots : Reset(s)
    \/ \E s \in Slots, flag \in BOOLEAN : Enable(s, flag)
    \/ \E s \in Slots, name \in NameInputs : SetName(s, name)

Spec == Init /\ [][Next]_vars

----------------------------------------------------------------------------
(* Two references: "a" holds a constructed attribute, "b" its copy.  The   *)
(* client may also store its own list and append to whatever list it gets  *)
(* back from `value`.                                                      *)

CopySlots == {"a", "b"}
CopyNames == {Str(<<"a">>)}
CopyValues == {None, ClientList}

\* s.value.append(...): the list in the value slot changes in place, for
\* every attribute that holds this same list
Mutate(s) ==
    /\ Bound(s)
    /\ _getVirtual(objs[s]).exc = "none"
    /\ _getVirtual(objs[s]).val.id > 0
    /\ _getVirtual(objs[s]).val.data = "l0"
    /\ objs' = [t \in DOMAIN objs |->
                  IF objs[t].value.id = objs[s].value.id
                  THEN [objs[t] EXCEPT !.value = Appended(@)]
                  ELSE objs[t]]
    /\ ret' = [NoRet EXCEPT !.op = "mutate", !.self = s]
    /\ win' = WinNext("mutate", s, FALSE)
    /\ UNCHANGED <<counter, enforce, autoHist, eff, thr>>

InitCopy ==
    /\ objs = [s \in CopySlots |-> Unbound]
    /\ counter = 0
    /\ enforce = FALSE
    /\ ret = NoRet
    /\ autoHist = <<>>
    /\ win = NoWin
    /\ eff = [s \in CopySlots |-> FALSE]
    /\ thr = [t \in Threads |-> IdleThread]

NextCopy ==
    \/ \E name \in CopyNames, doc \in Docs, value \in CopyValues :
          Construct("a", name, doc, TRUE, 0, value)
    \/ \E name \in CopyNames, enabled \in BOOLEAN, doc \in Docs :
          ConstructState("a", name, enabled, doc)
    \/ Copy("a", "b")
    \/ \E s \in CopySlots : Get(s)
    \/ \E s \in CopySlots, val \in CopyValues : Set(s, val)
    \/ \E s \in CopySlots : Reset(s)
    \/ \E s \in CopySlots, flag \in BOOLEAN : Enable(s, flag)
    \/ \E s \in CopySlots : Mutate(s)

SpecCopy == InitCopy /\ [][NextCopy]_vars

----------------------------------------------------------------------------
(* Concurrent construction.  Each thread builds base attributes into its   *)
(* own reference; `_instance_index += 1` is a load and a later store of    *)
(* the class attribute, and the index is a second load.  A thread switch   *)
(* can fall between any two of these steps.                                *)

\* line 66, first half: load CollectableAttribute._instance_index
T_Load(t) ==
    /\ thr[t].pc = "idle"
    /\ counter < MaxCounter
    /\ thr' = [thr EXCEPT ![t] = [pc |-> "loaded", tmp |-> counter, idx |-> 0]]
    /\ UNCHANGED <<objs, counter, enforce, ret, autoHist, win, eff>>

\* line 66, second half: store the loaded value plus one
T_Store(t) ==
    /\ thr[t].pc = "loaded"
    /\ counter' = thr[t].tmp + 1
    /\ thr' = [thr EXCEPT ![t].pc = "stored"]
    /\ UNCHANGED <<objs, enforce, ret, autoHist, win, eff>>

\* variant: the index is the value loaded for the increment
T_Index_stale(t) ==
    /\ thr[t].pc = "stored"
    /\ thr' = [thr EXCEPT ![t].pc = "indexed", ![t].idx = thr[t].tmp]
    /\ autoHist' = Append(autoHist, thr[t].tmp)
    /\ UNCHANGED <<objs, counter, enforce, ret, win, eff>>

\* line 67: index = CollectableAttribute._instance_index
T_Index(t) ==
    /\ thr[t].pc = "stored"
    /\ thr' = [thr EXCEPT ![t].pc = "indexed", ![t].idx = counter]
    /\ autoHist' = Append(autoHist, counter)
    /\ UNCHANGED <<objs, counter, enforce, ret, win, eff>>

\* lines 73-80: the rest of __init__ with the index just read
T_Finish(t, name, doc, value) ==
    /\ thr[t].pc = "indexed"
    /\ objs' = [objs EXCEPT ![t] =
                  CA_init("CollectableAttribute", counter, name, doc,
                          FALSE, thr[t].idx, value).obj]
    /\ thr' = [thr EXCEPT ![t] = IdleThread]
    /\ ret' = [NoRet EXCEPT !.op = "init", !.self = t, !.val = value,
                            !.auto = TRUE]
    /\ eff' = [eff EXCEPT ![t] = (value # None)]
    /\ UNCHANGED <<counter, enforce, autoHist, win>>

InitThreads ==
    /\ objs = [t \in Threads |-> Unbound]
    /\ counter = 0
    /\ enforce = FALSE
    /\ ret = NoRet
    /\ autoHist = <<>>
    /\ win = NoWin
    /\ eff = [t \in Threads |-> FALSE]
    /\ thr = [t \in Threads |-> IdleThread]

NextThreads ==
    \/ \E t \in Threads : T_Load(t)
    \/ \E t \in Threads : T_Store(t)
    \/ \E t \in Threads : T_Index(t)
    \/ \E t \in Threads, name \in CopyNames, value \in CtorValues :
          T_Finish(t, name, NoDoc, value)

SpecThreads == InitThreads /\ [][NextThreads]_vars

----------------------------------------------------------------------------
(* Properties *)

\* C1: reading `value` of a StateVariable raises UnknownStateError exactly
\* when isSet is false, whatever the gate; when isSet is true it returns the
\* stored value; a failed (indeed any) read leaves the attribute unchanged.
C1_ReadFailsIffUnset ==
    [][\A s \in Slots :
         (ret'.op = "get" /\ IsState(s) /\ Get(s)) =>
            /\ (ret'.exc = "UnknownStateError") <=> ~objs[s].isset
            /\ objs[s].isset => (ret'.exc = "none" /\ ret'.val = objs[s].value)
            /\ objs' = objs]_vars

C1_Witness ==
    /\ ret.op = "get" /\ ret.exc = "UnknownStateError"
    /\ IsState(ret.self) /\ objs[ret.self].isenabled

\* C2: set(x) on a StateVariable whose gate is disabled raises nothing and
\* leaves isSet, the stored value and the gate as they were.
C2_DisabledSetIsDiscarded ==
    [][\A s \in Slots, x \in PyValues :
         (ret'.op = "set" /\ IsState(s) /\ ~objs[s].isenabled /\ Set(s, x)) =>
            /\ ret'.exc = "none"
            /\ objs'[s] = objs[s]]_vars

C2_Witness ==
    /\ ret.op = "set" /\ IsState(ret.self)
    /\ ~objs[ret.self].isenabled /\ objs[ret.self].isset
    /\ objs[ret.self].value # ret.val

\* C3: after set(x) on a base attribute, or on a StateVariable whose gate is
\* enabled, isSet is true and reading `value` returns x; the gate of the
\* StateVariable stays enabled.
C3_SetStores ==
    [][\A s \in Slots, x \in PyValues :
         (ret'.op = "set" /\ (IsBase(s) \/ (IsState(s) /\ objs[s].isenabled))
          /\ Set(s, x)) =>
            /\ isSet(objs'[s])
            /\ _getVirtual(objs'[s]) = [exc |-> "none", val |-> x]
            /\ IsState(s) => isEnabled(objs'[s])]_vars

C3_Witness ==
    /\ ret.op = "set" /\ IsState(ret.self) /\ objs[ret.self].isenabled
    /\ objs[ret.self].isset /\ objs[ret.self].value = ret.val
    /\ ret.val \in Values

\* C4: reset() on a StateVariable leaves it unset with the stored value
\* None and the gate unchanged, so the next read of `value` raises
\* UnknownStateError.
C4_StateResetNulls ==
    [][\A s \in Slots :
         (ret'.op = "reset" /\ IsState(s) /\ Reset(s)) =>
            /\ ~isSet(objs'[s])
            /\ objs'[s].value = None
            /\ objs'[s].isenabled = objs[s].isenabled
            /\ _getVirtual(objs'[s]).exc = "UnknownStateError"]_vars

C4_Witness ==
    /\ ret.op = "reset" /\ IsState(ret.self)
    /\ ~objs[ret.self].isset /\ ~objs[ret.self].isenabled

\* C5: reset() on a base attribute clears isSet and keeps the stored value:
\* reading `value` afterwards returns what was stored, without failing.
C5_BaseResetKeepsValue ==
    [][\A s \in Slots :
         (ret'.op = "reset" /\ IsBase(s) /\ Reset(s)) =>
            /\ ~isSet(objs'[s])
            /\ objs'[s].value = objs[s].value
            /\ _getVirtual(objs'[s]) = [exc |-> "none", val |-> objs[s].value]]_vars

C5_Witness ==
    /\ ret.op = "reset" /\ IsBase(ret.self)
    /\ ~objs[ret.self].isset /\ objs[ret.self].value \in Values

\* C6: enable(flag) changes only the gate, which becomes flag; with the gate
\* already at flag nothing changes, and a second enable(flag) changes nothing.
C6_EnableOnlyGate ==
    [][\A s \in Slots, f \in BOOLEAN :
         (ret'.op = "enable" /\ Enable(s, f)) =>
            /\ objs'[s] = [objs[s] EXCEPT !.isenabled = f]
            /\ isEnabled(objs'[s]) = f
            /\ (objs[s].isenabled = f) => (objs' = objs)
            /\ enable(objs'[s], f) = objs'[s]
            /\ counter' = counter]_vars

C6_Witness ==
    /\ ret.op = "enable" /\ ~ret.flag
    /\ ~objs[ret.self].isenabled /\ objs[ret.self].isset

\* C7: after enable(False); set(x1) ... set(xn); enable(True), isSet and the
\* outcome of reading `value` are what they were just before enable(False).
C7_DiscardedNeverObservable ==
    [][\A s \in Slots :
         (ret'.op = "enable" /\ win.st = "open" /\ win.self = s /\ Enable(s, TRUE)) =>
            /\ isSet(objs'[s]) = win.isset
            /\ _getVirtual(objs'[s]) = [exc |-> win.exc, val |-> win.val]]_vars

C7_Witness ==
    /\ win.st = "closed" /\ win.wrote /\ ~win.isset
    /\ ret.op = "enable" /\ ret.flag
    /\ ~objs[win.self].isset /\ objs[win.self].isenabled

\* C8: constructing a CollectableAttribute or a StateVariable with a name
\* that starts with '_', or that is neither a string nor None, raises
\* ValueError and binds no attribute.
C8_ConstructRejectsBadName ==
    [][\A s \in Slots, name \in NameInputs :
         ( /\ ret'.op = "init"
           /\ \/ name.type \notin {"NoneType", "str"}
              \/ (name.type = "str" /\ Len(name.chars) > 0 /\ name.chars[1] = "_")
           /\ \/ \E doc \in Docs, auto \in BOOLEAN, index \in IndexInputs \cup {0},
                    value \in CtorValues :
                    Construct(s, name, doc, auto, index, value)
              \/ \E enabled \in BOOLEAN, doc \in Docs :
                    ConstructState(s, name, enabled, doc) ) =>
            /\ ret'.exc = "ValueError"
            /\ objs' = objs]_vars

\* C9: _setName raises ValueError exactly for a non-None non-string or a
\* string starting with '_'; every other name (None, any other string, the
\* empty string included) is stored; a failed rename keeps the stored name.
C9_RenameRejectsExactlyBadNames ==
    [][\A s \in Slots, name \in NameInputs :
         (ret'.op = "setName" /\ SetName(s, name)) =>
            LET bad == \/ name.type \notin {"NoneType", "str"}
                       \/ (name.type = "str" /\ Len(name.chars) > 0
                           /\ name.chars[1] = "_")
            IN  /\ (ret'.exc = "ValueError") <=> bad
                /\ ~bad => (ret'.exc = "none" /\ _getName(objs'[s]) = name)
                /\ ret'.exc # "none" => objs'[s].name = objs[s].name]_vars

\* C10: the indexes handed out to constructions that omit the index are
\* strictly increasing in construction order, whatever is interleaved; a
\* construction with an explicit index stores it and leaves the class
\* counter unchanged.
C10_AutoIndexIncreasing ==
    [][/\ autoHist' # autoHist =>
            /\ Len(autoHist') = Len(autoHist) + 1
            /\ SubSeq(autoHist', 1, Len(autoHist)) = autoHist
            /\ \A i \in 1..Len(autoHist) : autoHist[i] < autoHist'[Len(autoHist')]
       /\ (ret'.op = "init" /\ ret'.auto) =>
            /\ autoHist' # autoHist
            /\ objs'[ret'.self].index = autoHist'[Len(autoHist')]
       /\ (ret'.op = "init" /\ ~ret'.auto) =>
            /\ objs'[ret'.self].index = ret'.idx
            /\ counter' = counter
            /\ autoHist' = autoHist]_vars

C10_Witness ==
    /\ Len(autoHist) >= 3
    /\ ret.op = "init" /\ IsState(ret.self)
    /\ objs[ret.self].index = autoHist[Len(autoHist)]

AccessOps == {"get", "set", "reset", "enable"}

\* C11: copy() of any attribute in any reachable state succeeds and gives a
\* new instance of the same class with the same name and doc whose value is
\* an independently owned duplicate of the original's value: appending to the
\* list held by the copy is not observable through any other attribute.
C11_CopyAlwaysIndependent ==
    [][/\ \A s, d \in DOMAIN objs :
            (ret'.op = "copy" /\ s # d /\ Copy(s, d)) =>
               /\ ret'.exc = "none"
               /\ objs'[d].kind = objs[s].kind
               /\ objs'[d].name = objs[s].name
               /\ objs'[d].doc = objs[s].doc
               /\ objs'[d].value.data = objs[s].value.data
               /\ objs[s].value.id > 0 =>
                     \A t \in DOMAIN objs \ {d} :
                        objs'[t].value.id # objs'[d].value.id
       /\ (ret'.op = "mutate" /\ objs[ret'.self].value.id > 1) =>
             \A t \in DOMAIN objs \ {ret'.self} : objs'[t] = objs[t]]_vars

\* C12: right after a construction without an initial value isSet is false;
\* reading `value` of a StateVariable then raises UnknownStateError, reading
\* it on a base attribute returns None without failing.
C12_FreshIsUnset ==
    [][(ret'.op = "init" /\ ret'.val = None) =>
          LET o == objs'[ret'.self]
          IN  /\ ~isSet(o)
              /\ o.kind = "StateVariable" =>
                    _getVirtual(o).exc = "UnknownStateError"
              /\ o.kind = "CollectableAttribute" =>
                    _getVirtual(o) = [exc |-> "none", val |-> None]]_vars

C12_Witness ==
    /\ ret.op = "init" /\ ret.val = None /\ ~ret.auto
    /\ IsBase(ret.self) /\ ~objs[ret.self].isset
    /\ objs[ret.self].value = None

\* C13: a StateVariable constructed with enabled=e starts unset with
\* isEnabled and defaultEnabled both e; with the test-mode flag active both
\* are true whatever e is.
C13_InitialGate ==
    [][(ret'.op = "init" /\ objs'[ret'.self].kind = "StateVariable") =>
          LET o == objs'[ret'.self]
              e == IF enforce THEN TRUE ELSE ret'.flag
          IN  /\ ~isSet(o)
              /\ isEnabled(o) = e
              /\ o.defaultenabled = e]_vars

C13_Witness ==
    /\ ret.op = "init" /\ IsState(ret.self)
    /\ enforce /\ ~ret.flag
    /\ objs[ret.self].isenabled /\ objs[ret.self].defaultenabled

\* C14: set, get, reset and enable never change the name, the doc or the
\* ordering index of the attribute; reset does not change the gate of a
\* StateVariable either.
C14_IdentityIsFrame ==
    [][(ret'.op \in AccessOps) =>
          LET s == ret'.self
          IN  /\ objs'[s].kind = objs[s].kind
              /\ objs'[s].name = objs[s].name
              /\ objs'[s].doc = objs[s].doc
              /\ objs'[s].index = objs[s].index
              /\ (ret'.op = "reset" /\ objs[s].kind = "StateVariable") =>
                    objs'[s].isenabled = objs[s].isenabled]_vars

C14_Witness ==
    /\ ret.op = "reset" /\ IsState(ret.self)
    /\ objs[ret.self].isenabled # objs[ret.self].defaultenabled
    /\ objs[ret.self].name = Str(<<"a">>)
    /\ objs[ret.self].doc = DefaultStateDoc

\* C15: isSet is true exactly when a write that took effect has happened
\* since construction or since the last reset.
C15_IsSetIffEffectiveWrite ==
    \A s \in DOMAIN objs :
       Bound(s) => (isSet(objs[s]) <=> eff[s])

C15_Witness ==
    /\ ret.op = "set" /\ ret.val = None /\ IsState(ret.self)
    /\ objs[ret.self].isenabled
    /\ eff[ret.self] /\ objs[ret.self].isset

\* C16: constructing a base attribute with a non-None initial value v leaves
\* it set with `value` returning v: the constructor's reset runs before the
\* initializing set.
C16_InitialValueIsSet ==
    [][(ret'.op = "init" /\ ret'.val # None
          /\ objs'[ret'.self].kind = "CollectableAttribute") =>
          LET o == objs'[ret'.self]
          IN  /\ isSet(o)
              /\ _getVirtual(o) = [exc |-> "none", val |-> ret'.val]]_vars

C16_Witness ==
    /\ ret.op = "init" /\ ret.val \in Values
    /\ IsBase(ret.self) /\ objs[ret.self].isset
    /\ objs[ret.self].value = ret.val

\* C17: the counter steps of concurrent constructions are not atomic.  The
\* counter never runs ahead of the constructions that have stored it and
\* every index handed out is at least 1 and at most the number of stores made
\* so far, but indexes are not unique: two threads that interleave their
\* steps can end with the same index and with the counter below the number
\* of constructions (the witness).
C17_CounterRace ==
    /\ counter <= Len(autoHist)
                    + Cardinality({t \in DOMAIN thr : thr[t].pc = "stored"})
    /\ \A i \in 1..Len(autoHist) :
          /\ autoHist[i] >= 1
          /\ autoHist[i] <= i + Cardinality(DOMAIN thr) - 1
    /\ \A t \in DOMAIN thr :
          (t \in DOMAIN objs /\ Bound(t)) =>
             \E i \in 1..Len(autoHist) : autoHist[i] = objs[t].index

C17_Witness ==
    /\ \A t \in Threads : t \in DOMAIN objs /\ Bound(t) /\ thr[t].pc = "idle"
    /\ objs["t1"].index = objs["t2"].index
    /\ Len(autoHist) = 2
    /\ counter < Len(autoHist)

\* C18: an unset StateVariable never retains a stored value: isSet false
\* implies that the value slot is None.
C18_UnsetStateHoldsNone ==
    \A s \in DOMAIN objs :
       (objs[s].kind = "StateVariable" /\ ~isSet(objs[s])) =>
          objs[s].value = None

C18_Witness ==
    /\ ret.op = "set" /\ ret.val # None /\ IsState(ret.self)
    /\ ~objs[ret.self].isenabled /\ ~objs[ret.self].isset
    /\ objs[ret.self].value = None

\* C19: the copy of a base attribute is always marked set, whether or not
\* the original was; the copy of a never-set original holds None as a set
\* value; the copy leaves isSet and the value of the original unchanged.
C19_BaseCopyIsSet ==
    [][\A s, d \in DOMAIN objs :
         (ret'.op = "copy" /\ s # d /\ IsBase(s) /\ Copy(s, d)) =>
            /\ ret'.exc = "none"
            /\ objs'[d].kind = "CollectableAttribute"
            /\ isSet(objs'[d])
            /\ objs'[d].value.data = objs[s].value.data
            /\ (~isSet(objs[s]) /\ objs[s].value = None) =>
                  _getVirtual(objs'[d]) = [exc |-> "none", val |-> None]
            /\ objs'[s] = objs[s]]_vars

C19_Witness ==
    /\ ret.op = "copy" /\ ret.exc = "none" /\ ret.self = "b"
    /\ "b" \in DOMAIN objs
    /\ IsBase("a") /\ ~objs["a"].isset /\ objs["a"].value = None
    /\ IsBase("b") /\ objs["b"].isset /\ objs["b"].value = None

\* C20: defaultEnabled of a StateVariable is fixed at construction: enable,
\* set, reset and get never change it, so it can differ from isEnabled once
\* enable has been called.
C20_DefaultEnabledFixed ==
    [][(ret'.op \in AccessOps /\ objs[ret'.self].kind = "StateVariable") =>
          objs'[ret'.self].defaultenabled = objs[ret'.self].defaultenabled]_vars

C20_Witness ==
    /\ ret.op = "enable" /\ IsState(ret.self)
    /\ objs[ret.self].isenabled = ret.flag
    /\ objs[ret.self].defaultenabled # objs[ret.self].isenabled

====
